---- MODULE Spec2Model ----
(***************************************************************************)
(* The benchmark harness of image-resizer (src/benchmark.js) as a state    *)
(* machine of the Node.js event loop.  One action is one macrotask: a      *)
(* timer callback, the settling of one HTTP request, or the module's       *)
(* top-level call of runBenchmarks, each run to completion together with   *)
(* every promise continuation (microtask) it releases, up to the next      *)
(* await that has to wait for a timer or for the network.                  *)
(*                                                                         *)
(* Handlers are written as functions from a state record to a state        *)
(* record (the fields are the module's variables), so that a handler can   *)
(* run the continuation of an await in the same step.                      *)
(*                                                                         *)
(* Parts of the program are also specified by themselves, each with the   *)
(* rest at rest: one ResourceMonitor (SpecMonitor), one call of            *)
(* createTestImageBuffer (SpecPayload, and SpecPayloadFair for progress),  *)
(* one request to the server's upload endpoint, src/unnamed/part_000       *)
(* (SpecUpload), and the target qualities of processImage for one file     *)
(* (SpecQuality).  SpecRace is the harness with the order in which the     *)
(* requests of a scenario settle recorded.                                 *)
(***************************************************************************)
EXTENDS Integers, Sequences, FiniteSets, TLC

VARIABLES
    pc,                     \* where runBenchmarks is suspended
    exited,                 \* process.exit() was called
    idx,                    \* position of the for-loop over scenarios (0: not entered)
    concurrency,            \* scenario.concurrency of the scenario being run
    previousScenarioFailed, \* benchmark.js:361
    safetyMonitor,          \* the watchdog interval of startSafetyMonitor is active
    memTotal,               \* getSystemMemoryMB(), in MB
    rssMemoryMB,            \* the RSS the watchdog read at its last tick (0: no tick yet)
    srv,                    \* which fields the server's 200 response carries
    requests,               \* per scenario, the promises of sendImageResizeRequest
    race,                   \* per scenario, the state of Promise.race([all, timeout])
    timer,                  \* per scenario, the setTimeout behind timeoutPromise:
                            \* "unset", "armed" or "fired"
    cooldown,               \* the setTimeout of the cooldown between scenarios
    monitor,                \* the ResourceMonitor of the scenario being run
    result,                 \* what runConcurrentRequests returned last
    rate,                   \* the last "Success rate" line: <<successes, attempted>>
    ratePercent,            \* the percentage printed on that line
    log,                    \* per scenario, the notices that tell how it went
    report,                 \* the other notices printed for the scenario being run
    out,                    \* the notices of the run as a whole
    issued,                 \* how many requests the run has issued so far
    settledOrder,           \* the requests of the running race in the order they
                            \* settled (kept by SpecRace only)
    firstSuccessfulResult,  \* which outcome line 320 took (its index in results; 0: none)
    monitorCalls,           \* the methods called on that ResourceMonitor, in order
    sinceEnd                \* seconds since the last scenario ended (capped)

\* One ResourceMonitor, taken by itself (benchmark.js:23-139).
VARIABLES
    samples,                \* this.samples
    interval,               \* this.interval: a timer handle, 0 for null
    intervals,              \* the handles of the setInterval timers that are live
    summary,                \* what stop() or getResults() returned last
    called                  \* the last thing that ran: a method or the timer callback

\* One call of createTestImageBuffer, taken by itself (benchmark.js:142-186).
VARIABLES
    sizeMB,                 \* the argument
    sampleImage,            \* the length of the seed file read at line 152
    buffer,                 \* the length of `buffer`
    copied,                 \* the loop counter of line 160
    bpc,                    \* "idle", "loop", "returned" or "exited"
    warned                  \* the warning of line 178 was printed

\* One request to POST /upload of the server (unnamed/part_000:85-183).
VARIABLES
    req,                    \* the request: whether req.files and files.media exist,
                            \* and the names of the files under media
    upc,                    \* where the handler is: "listening", "transform",
                            \* "saving", "sent" or "crashed"
    fileIndex,              \* the position of the for-loop over mediaFiles
    tierIndex,              \* which of the three processImage calls is awaited
    processedImages,        \* per tier, the names pushed so far
    fileSizes,              \* fileSizes.qualities of the file being processed
    timings,                \* timings.files
    sizes,                  \* totalOriginalSize, totalProcessedSize, files
    codec,                  \* every call of processImage, in order, with its outcome
    responses,              \* the responses sent for the request
    disk,                   \* the paths written by saveImageToDisk
    saved                   \* how many buffers saveProcessedImages has written

harnessVars == <<pc, exited, idx, concurrency, previousScenarioFailed, safetyMonitor,
          memTotal, rssMemoryMB, srv, requests, race, timer, cooldown, monitor,
          result, rate, ratePercent, log, report, out, sinceEnd,
          issued, settledOrder, firstSuccessfulResult, monitorCalls>>

samplerVars == <<samples, interval, intervals, summary, called>>

uploadVars == <<req, upc, fileIndex, tierIndex, processedImages, fileSizes,
                timings, sizes, codec, responses, disk, saved>>

payloadVars == <<sizeMB, sampleImage, buffer, copied, bpc, warned>>

\* One file taken through its three processImage calls
\* (unnamed/part_000:13-82, 127-144).
VARIABLES
    fileBuffer,             \* fileBuffer.length, in bytes
    quality,                \* the tier of the last call ("none" before the first)
    targetQuality           \* per tier, the targetQuality its call computed

qualityVars == <<fileBuffer, quality, targetQuality>>

vars == <<harnessVars, samplerVars, uploadVars, payloadVars, qualityVars>>

\* A JavaScript number that is a whole number or Infinity.
Num(n) == [inf |-> FALSE, n |-> n]
Infinity == [inf |-> TRUE, n |-> 0]

\* processImage has not been called.
QualityIdle ==
    /\ fileBuffer = 0
    /\ quality = "none"
    /\ targetQuality = [low |-> Num(0), medium |-> Num(0)]

\* createTestImageBuffer has not been called.
PayloadIdle ==
    /\ sizeMB = 0
    /\ sampleImage = 0
    /\ buffer = 0
    /\ copied = 0
    /\ bpc = "idle"
    /\ warned = FALSE

\* unnamed/part_000:95-113: the handler's locals as they are first set;
\* no request has arrived.
NoRequest == [hasFiles |-> FALSE, hasMedia |-> FALSE, names |-> <<>>]

UploadIdle ==
    /\ req = NoRequest
    /\ upc = "listening"
    /\ fileIndex = 0
    /\ tierIndex = 0
    /\ processedImages = [low |-> <<>>, medium |-> <<>>, original |-> <<>>]
    /\ fileSizes = [low |-> 0, medium |-> 0, original |-> 0]
    /\ timings = [files |-> <<>>]
    /\ sizes = [totalOriginalSize |-> 0,
                totalProcessedSize |-> [low |-> 0, medium |-> 0, original |-> 0],
                files |-> <<>>]
    /\ codec = <<>>
    /\ responses = <<>>
    /\ disk = {}
    /\ saved = 0

\* benchmark.js:24-31: a ResourceMonitor as its constructor leaves it.
NoSummary == [shape |-> "none"]

ResourceMonitorNew ==
    /\ samples = <<>>
    /\ interval = 0
    /\ intervals = {}
    /\ summary = NoSummary
    /\ called = "constructor"

----------------------------------------------------------------------------
(* SAFETY_LIMITS, benchmark.js:13-20.  The two memory limits keep their    *)
(* values; the request limit and the cooldown are scaled down (50 requests *)
(* and 5 s in the source) and time is counted in seconds.  The scenario    *)
(* timeout (maxTimePerScenarioSec) is a timer that may fire at any moment  *)
(* after it is set: how long requests take is not bounded by it.           *)

maxConcurrentRequests == 2
minDelayBetweenScenariosSec == 1
\* benchmark.js:15: 100, that is twice maxConcurrentRequests.  No
\* statement of the program reads it.
maxTotalRequestsPerRun == 2 * maxConcurrentRequests

maxMemoryThresholdPercent == 80
maxMemoryThresholdMB == 4096

\* The scenarios array of runBenchmarks has three entries.
NumScenarios == 3

Scenarios == 1..NumScenarios
\* scenario.concurrency: the list is an input of the run; each entry is
\* drawn when the loop reaches it, up to one above the clamp.
Concurrencies == 0..(maxConcurrentRequests + 1)
\* os.totalmem() in MB: one machine where the percentage decides the
\* ceiling, one where the absolute limit does.
MemTotals == {2048, 8192}
\* process.memoryUsage().rss in MB, around both ceilings.
RssValues == {1639, 4097}
\* The upload endpoint answers 200 with timings and sizes
\* (unnamed/part_000:178-182) or with a message only (unnamed/part_001:104-106).
ServerShapes == [timings : BOOLEAN, sizes : BOOLEAN]

Min(a, b) == IF a <= b THEN a ELSE b

----------------------------------------------------------------------------
(* Promises of sendImageResizeRequest and their outcomes.                  *)

Pending == [state |-> "pending", success |-> FALSE, timings |-> FALSE,
            sizes |-> FALSE, error |-> FALSE]

\* benchmark.js:211-216: the outcome of a 200 response.
OutcomeOk(shape) ==
    [state |-> "fulfilled", success |-> TRUE, timings |-> shape.timings,
     sizes |-> shape.sizes, error |-> FALSE]

\* What the promise would settle to if the error escaped.
OutcomeErrorRethrown ==
    [state |-> "rejected", success |-> FALSE, timings |-> FALSE,
     sizes |-> FALSE, error |-> TRUE]

\* benchmark.js:217-226: the catch block turns any error of axios.post
\* into an outcome.
OutcomeError ==
    [state |-> "fulfilled", success |-> FALSE, timings |-> FALSE,
     sizes |-> FALSE, error |-> TRUE]

\* A variant whose catch block throws the error on.
sendImageResizeRequestRethrows(resp, shape) ==
    IF resp = "response" THEN OutcomeOk(shape) ELSE OutcomeErrorRethrown

\* sendImageResizeRequest, from the answer of the network to what its
\* promise settles to.
sendImageResizeRequest(resp, shape) ==
    IF resp = "response" THEN OutcomeOk(shape) ELSE OutcomeError

Unset == [st |-> "unset", left |-> 0]
Armed(delay) == [st |-> "armed", left |-> delay]
Fired == [st |-> "fired", left |-> 0]

NoResult == [valid |-> FALSE, results |-> <<>>, safetyTriggered |-> FALSE]

InFlight(reqs, s) == {k \in DOMAIN reqs[s] : reqs[s][k].state = "pending"}
\* A variant of the filter of line 304 that keeps every outcome.
SuccessfulAll(results) == DOMAIN results

\* benchmark.js:295, 304: the outcomes with success = true.
Successful(results) == {k \in DOMAIN results : results[k].success}

----------------------------------------------------------------------------
(* The state record.                                                       *)

Cur == [pc |-> pc, exited |-> exited, idx |-> idx, concurrency |-> concurrency,
        previousScenarioFailed |-> previousScenarioFailed,
        safetyMonitor |-> safetyMonitor, memTotal |-> memTotal,
        rssMemoryMB |-> rssMemoryMB, srv |-> srv, requests |-> requests,
        race |-> race, timer |-> timer, cooldown |-> cooldown,
        monitor |-> monitor, result |-> result, rate |-> rate,
        ratePercent |-> ratePercent, log |-> log,
        report |-> report, out |-> out,
        sinceEnd |-> sinceEnd,
        issued |-> issued,
        settledOrder |-> settledOrder,
        firstSuccessfulResult |-> firstSuccessfulResult,
        monitorCalls |-> monitorCalls]

Becomes(s) ==
    /\ pc' = s.pc
    /\ exited' = s.exited
    /\ idx' = s.idx
    /\ concurrency' = s.concurrency
    /\ previousScenarioFailed' = s.previousScenarioFailed
    /\ safetyMonitor' = s.safetyMonitor
    /\ memTotal' = s.memTotal
    /\ rssMemoryMB' = s.rssMemoryMB
    /\ srv' = s.srv
    /\ requests' = s.requests
    /\ race' = s.race
    /\ timer' = s.timer
    /\ cooldown' = s.cooldown
    /\ monitor' = s.monitor
    /\ result' = s.result
    /\ rate' = s.rate
    /\ ratePercent' = s.ratePercent
    /\ log' = s.log
    /\ report' = s.report
    /\ out' = s.out
    /\ sinceEnd' = s.sinceEnd
    /\ monitorCalls' = s.monitorCalls
    /\ firstSuccessfulResult' = s.firstSuccessfulResult
    /\ settledOrder' = s.settledOrder
    /\ issued' = s.issued
    /\ UNCHANGED <<samplerVars, uploadVars, payloadVars, qualityVars>>

Logged(s, i, notices) == [s EXCEPT !.log[i] = @ \cup notices]
Reported(s, notices) == [s EXCEPT !.report = @ \cup notices]

----------------------------------------------------------------------------
(* startSafetyMonitor, benchmark.js:235-257.                               *)

\* A variant that takes the larger of the two ceilings.
memoryThresholdMaxOfBoth(total) ==
    IF total * maxMemoryThresholdPercent >= maxMemoryThresholdMB * 100
    THEN total * maxMemoryThresholdPercent
    ELSE maxMemoryThresholdMB * 100

\* benchmark.js:236-239, memoryThresholdMB in hundredths of a MB (the
\* percentage of the total need not be a whole number of MB).
memoryThreshold(total) ==
    Min(total * maxMemoryThresholdPercent, maxMemoryThresholdMB * 100)

\* benchmark.js:249: rssMemoryMB > memoryThresholdMB
ExceedsThreshold(rss, total) == rss * 100 > memoryThreshold(total)

\* benchmark.js:245-256: the interval is set at run entry.
startSafetyMonitor(s) ==
    [s EXCEPT !.safetyMonitor = TRUE, !.out = @ \cup {"safetyMonitoring"}]

\* benchmark.js:245-254: one tick of the watchdog; process.exit(1) ends
\* the process inside the callback.
WatchdogCallback(s, rss) ==
    IF ExceedsThreshold(rss, s.memTotal)
    THEN [s EXCEPT !.rssMemoryMB = rss, !.exited = TRUE,
                   !.out = @ \cup {"safetyAlert"}]
    ELSE [s EXCEPT !.rssMemoryMB = rss]

----------------------------------------------------------------------------
(* runBenchmarks, benchmark.js:345-443, after an await resumes.            *)

\* benchmark.js:431-433, then the .then of line 437: the outer catch
\* logs the error and runBenchmarks resolves; the watchdog interval is
\* not cleared on this path.
Caught(s) ==
    [s EXCEPT !.pc = "caught", !.out = @ \cup {"benchmarkFailed", "complete"}]

\* A variant that prints the suggestions whatever happened before.
FinishAlwaysSuggests(s) ==
    [s EXCEPT !.pc = "done",
              !.safetyMonitor = FALSE,
              !.out = @ \cup {"suggestions", "complete"}]

\* benchmark.js:415-429, then the .then of line 437.
Finish(s) ==
    [s EXCEPT !.pc = "done",
              !.safetyMonitor = FALSE,
              !.out = @ \cup (IF s.previousScenarioFailed THEN {} ELSE {"suggestions"})
                        \cup {"complete"}]

\* A variant whose delay is no time at all (seconds handed over as
\* milliseconds).
CooldownDelayNone(failed) == 0

\* benchmark.js:412: the delay handed to setTimeout.
CooldownDelay(failed) == minDelayBetweenScenariosSec

\* benchmark.js:410-412
CoolDown(s) ==
    [s EXCEPT !.pc = "cooldown",
              !.cooldown = Armed(CooldownDelay(s.previousScenarioFailed)),
              !.report = @ \cup {"cooling"}]

\* benchmark.js:381, 398-401
FailedAfterSingle(singleResult, failed) ==
    IF singleResult.success THEN failed ELSE TRUE

\* A variant that ignores safetyTriggered.
FailedAfterConcurrentLost(ret, failed) == failed

\* benchmark.js:405-407
FailedAfterConcurrent(ret, failed) ==
    IF ret.safetyTriggered THEN TRUE ELSE failed

\* benchmark.js:378-412: the single-request path once the request has
\* settled.  A rejected request would throw at the await of line 376.
\* Line 383 reads singleResult.timings.totalProcessingTime without a
\* test: with no timings it throws a TypeError into the outer catch.
SingleContinuation(s, i, singleResult) ==
    LET s1 == [s EXCEPT !.monitor = "stopped", !.sinceEnd = 0,
                        !.monitorCalls = @ \o <<"stop", "printResults">>,
                        !.requests[i] = <<>>,
                        !.report = @ \cup {"resources"}]
    IN  IF singleResult.state = "rejected" THEN Caught(s)
        ELSE IF singleResult.success
        THEN IF ~singleResult.timings
             THEN Caught(Reported(s1, {"completed"}))
             ELSE CoolDown(Reported(s1,
                      {"completed", "processing"}
                      \cup (IF singleResult.sizes THEN {"compression"} ELSE {})))
        ELSE CoolDown([Logged(s1, i, {"requestFailed"}) EXCEPT
                 !.previousScenarioFailed = FailedAfterSingle(singleResult, @)])

\* benchmark.js:404-412: runBenchmarks once runConcurrentRequests returned.
AfterConcurrent(s, ret) ==
    CoolDown([s EXCEPT !.result = ret, !.sinceEnd = 0,
                       !.previousScenarioFailed = FailedAfterConcurrent(ret, @)])

----------------------------------------------------------------------------
(* runConcurrentRequests, benchmark.js:260-342.                            *)

\* A variant without the clamp.
adjustedNumRequestsUnclamped(numRequests) == numRequests

\* benchmark.js:262
adjustedNumRequests(numRequests) == Min(numRequests, maxConcurrentRequests)

\* A variant that hands back what had settled when the timeout fired.
TimeoutReturnPartial(reqs) ==
    [valid |-> TRUE,
     results |-> SelectSeq(reqs, LAMBDA r : r.state = "fulfilled"),
     safetyTriggered |-> TRUE]

\* benchmark.js:340
TimeoutReturn(reqs) ==
    [valid |-> TRUE, results |-> <<>>, safetyTriggered |-> TRUE]

\* benchmark.js:336
ResolvedReturn(results) ==
    [valid |-> TRUE, results |-> results, safetyTriggered |-> FALSE]

\* A variant that takes the successful outcome that arrived first.
FirstSuccessfulToComplete(results, order) ==
    LET done == SelectSeq(order, LAMBDA e : e.success)
    IN  IF done = <<>> THEN 0 ELSE Head(done).k

\* benchmark.js:304, 320: successfulResults[0], as an index in results
\* (0: there is none).  filter() keeps the order of results, which is the
\* order of issue; the order of settling plays no part.
FirstSuccessful(results, order) ==
    LET ok == Successful(results)
    IN  IF ok = {} THEN 0
        ELSE CHOOSE k \in ok : \A j \in ok : k <= j

\* No "Success rate" line was printed for the scenario.
NoPercent == [nan |-> FALSE, hundredths |-> 0]

\* benchmark.js:302: (successCount / adjustedNumRequests * 100).toFixed(2),
\* in hundredths of a percent.  0 / 0 is NaN, which toFixed prints as "NaN".
SuccessRatePercent(successCount, attempted) ==
    IF attempted = 0
    THEN [nan |-> TRUE, hundredths |-> 0]
    ELSE [nan |-> FALSE,
          hundredths |-> (2 * successCount * 10000 + attempted) \div (2 * attempted)]

\* benchmark.js:293-336: the race was won by Promise.all.  Every read of
\* timings and sizes is tested first (lines 311, 321, 327).
RaceResolved(s, i) ==
    LET results == s.requests[i]
        ok == Successful(results)
        first == FirstSuccessful(results, s.settledOrder)
        notices == {"resources", "results"}
                   \cup (IF ok # {} THEN {"averages"} ELSE {})
                   \cup (IF ok # {} /\ results[first].sizes
                         THEN {"compression"} ELSE {})
        s1 == [s EXCEPT !.race[i] = "resolved", !.monitor = "stopped",
                        !.monitorCalls = @ \o <<"stop", "printResults">>,
                        !.requests[i] = <<>>,
                        !.rate = <<Cardinality(ok), adjustedNumRequests(s.concurrency)>>,
                        !.firstSuccessfulResult = first,
                        !.ratePercent = SuccessRatePercent(Cardinality(ok),
                                            adjustedNumRequests(s.concurrency)),
                        !.report = @ \cup notices,
                        !.log[i] = @ \cup (IF Cardinality(ok) < Len(results)
                                           THEN {"someFailed"} ELSE {})]
    IN  AfterConcurrent(s1, ResolvedReturn(results))

\* A variant whose catch block throws the timeout on to runBenchmarks.
RaceRejectedRethrows(s, i) ==
    Caught([s EXCEPT !.race[i] = "rejected", !.monitor = "stopped",
                     !.log[i] = @ \cup {"safety"}])

\* A variant whose catch block leaves the monitor running.
RaceRejectedWithoutStop(s, i) ==
    LET s1 == [s EXCEPT !.race[i] = "rejected",
                        !.log[i] = @ \cup {"safety"}]
    IN  AfterConcurrent(s1, TimeoutReturn(s.requests[i]))

\* benchmark.js:337-341: the race was lost (the timeout, or a rejected
\* request).  The requests still pending stay in flight.
RaceRejected(s, i) ==
    LET s1 == [s EXCEPT !.race[i] = "rejected", !.monitor = "stopped",
                        !.monitorCalls = Append(@, "stop"),
                        !.log[i] = @ \cup {"safety"}]
    IN  AfterConcurrent(s1, TimeoutReturn(s.requests[i]))

\* benchmark.js:288-291: Promise.all rejects with the first rejection
\* and resolves when every request is fulfilled.
RaceStep(s, i) ==
    IF s.race[i] # "pending" \/ s.pc # "awaitRace" \/ s.idx # i THEN s
    ELSE IF \E k \in DOMAIN s.requests[i] : s.requests[i][k].state = "rejected"
    THEN RaceRejected(s, i)
    ELSE IF InFlight(s.requests, i) = {} THEN RaceResolved(s, i)
    ELSE s

\* benchmark.js:260-291: up to the await of the race, and through it when
\* there is nothing to wait for (Promise.all of no request).
runConcurrentRequests(s, i, numRequests) ==
    LET n == adjustedNumRequests(numRequests)
        s1 == [s EXCEPT !.pc = "awaitRace",
                        !.timer[i] = "armed",
                        !.monitor = "running",
                        !.monitorCalls = <<"start">>,
                        !.requests[i] = [k \in 1..n |-> Pending],
                        !.issued = @ + n,
                        !.race[i] = "pending",
                        !.report = @ \cup (IF n < numRequests THEN {"clamp"} ELSE {})]
    IN  RaceStep(s1, i)

----------------------------------------------------------------------------
(* The for-loop of runBenchmarks, benchmark.js:363-413.                    *)

\* A variant that never skips.
ShouldSkipNever(failed) == FALSE

\* benchmark.js:364
ShouldSkip(failed) == failed

\* benchmark.js:369-404: one scenario, up to its first await.
Execute(s, i, n) ==
    LET s1 == [s EXCEPT !.idx = i, !.concurrency = n, !.result = NoResult,
                        !.settledOrder = <<>>, !.firstSuccessfulResult = 0,
                        !.rate = <<0, 0>>, !.ratePercent = NoPercent,
                        !.report = {},
                        !.log[i] = @ \cup {"header"}]
    IN  IF n = 1
        THEN [s1 EXCEPT !.pc = "awaitSingle", !.monitor = "running",
                        !.monitorCalls = <<"start">>,
                        !.requests[i] = <<Pending>>,
                        !.issued = @ + 1]
        ELSE runConcurrentRequests(s1, i, n)

\* benchmark.js:363-367: the loop from entry i on.  Once the flag is
\* set every remaining entry is skipped with a notice.
RECURSIVE Advance(_, _, _)
Advance(s, i, n) ==
    IF i > NumScenarios THEN Finish([s EXCEPT !.idx = i])
    ELSE IF ShouldSkip(s.previousScenarioFailed)
    THEN Advance(Logged([s EXCEPT !.idx = i], i, {"skip"}), i + 1, n)
    ELSE Execute(s, i, n)

----------------------------------------------------------------------------
(* The macrotasks.                                                         *)

Init ==
    /\ pc = "load"
    /\ exited = FALSE
    /\ idx = 0
    /\ concurrency = 0
    /\ previousScenarioFailed = FALSE
    /\ safetyMonitor = FALSE
    /\ memTotal \in MemTotals
    /\ rssMemoryMB = 0
    /\ srv \in ServerShapes
    /\ requests = [i \in Scenarios |-> <<>>]
    /\ race = [i \in Scenarios |-> "none"]
    /\ timer = [i \in Scenarios |-> "unset"]
    /\ cooldown = Unset
    /\ monitor = "none"
    /\ result = NoResult
    /\ rate = <<0, 0>>
    /\ ratePercent = NoPercent
    /\ log = [i \in Scenarios |-> {}]
    /\ report = {}
    /\ out = {}
    /\ sinceEnd = minDelayBetweenScenariosSec
    /\ monitorCalls = <<>>
    /\ firstSuccessfulResult = 0
    /\ settledOrder = <<>>
    /\ issued = 0
    /\ ResourceMonitorNew
    /\ UploadIdle
    /\ PayloadIdle
    /\ QualityIdle

\* benchmark.js:437 calls runBenchmarks, which runs to its first await
\* that waits: createTestImageBuffer is synchronous inside.
RunBenchmarks ==
    /\ pc = "load"
    /\ ~exited
    /\ \E payload \in {"ok", "missing", "throws"}, n \in Concurrencies :
         LET s0 == startSafetyMonitor(Cur)
         IN  Becomes(CASE payload = "ok" -> Advance(s0, 1, n)
                       [] payload = "missing" ->
                            [s0 EXCEPT !.exited = TRUE,
                                       !.out = @ \cup {"sampleMissing"}]
                       [] OTHER -> Caught(s0))

\* One request settles.  Its promise is fulfilled by
\* sendImageResizeRequest; whoever awaits it resumes.
\* With `recorded`, the order of settling within the running race is kept
\* in settledOrder.
Settle(recorded) ==
    /\ ~exited
    /\ \E i \in Scenarios : \E k \in InFlight(requests, i) :
       \E resp \in {"response", "error"} :
         LET o == sendImageResizeRequest(resp, srv)
             s1 == [Cur EXCEPT !.requests[i][k] = o,
                               !.settledOrder =
                                   IF recorded /\ pc = "awaitRace" /\ race[i] = "pending"
                                   THEN Append(@, [k |-> k, success |-> o.success])
                                   ELSE @]
         IN  Becomes(IF pc = "awaitSingle" /\ idx = i
                     THEN SingleContinuation(s1, i, o)
                     ELSE RaceStep(s1, i))

RequestSettles == Settle(FALSE)

RequestSettlesRecorded == Settle(TRUE)

\* A variant in which a late timer still marks the run as failed.
TimerEffectAlways(s, i) ==
    IF s.race[i] = "pending" THEN RaceRejected(s, i)
    ELSE [s EXCEPT !.previousScenarioFailed = TRUE]

\* benchmark.js:270-274, 288-291: the timeout rejects timeoutPromise; the
\* race notices only if it is still pending.
TimerEffect(s, i) ==
    IF s.race[i] = "pending" THEN RaceRejected(s, i) ELSE s

\* The setTimeout of a scenario fires; it is never cleared.
ScenarioTimerFires ==
    /\ ~exited
    /\ \E i \in Scenarios :
         /\ timer[i] = "armed"
         /\ Becomes(TimerEffect([Cur EXCEPT !.timer[i] = "fired"], i))

\* benchmark.js:412-413: the cooldown is over, the loop goes on.
CooldownFires ==
    /\ ~exited
    /\ pc = "cooldown"
    /\ cooldown = Armed(0)
    /\ \E n \in Concurrencies :
         Becomes(Advance([Cur EXCEPT !.cooldown = Fired], idx + 1, n))

\* benchmark.js:245-254
WatchdogTick ==
    /\ ~exited
    /\ safetyMonitor
    /\ \E rss \in RssValues : Becomes(WatchdogCallback(Cur, rss))

Countdown(t) == IF t.st = "armed" /\ t.left > 0 THEN Armed(t.left - 1) ELSE t

\* One second passes.  A timer that is due may still fire later.
Tick ==
    /\ ~exited
    /\ \/ Countdown(cooldown) # cooldown
       \/ sinceEnd < minDelayBetweenScenariosSec
    /\ cooldown' = Countdown(cooldown)
    /\ sinceEnd' = Min(sinceEnd + 1, minDelayBetweenScenariosSec)
    /\ UNCHANGED <<pc, exited, idx, concurrency, previousScenarioFailed,
                   safetyMonitor, memTotal, rssMemoryMB, srv, requests, race,
                   timer, monitor, result, rate, ratePercent, log, report, out,
                   issued,
                   settledOrder,
                   firstSuccessfulResult,
                   monitorCalls>>
    /\ UNCHANGED <<samplerVars, uploadVars, payloadVars, qualityVars>>

Next ==
    \/ RunBenchmarks
    \/ RequestSettles
    \/ ScenarioTimerFires
    \/ CooldownFires
    \/ WatchdogTick
    \/ Tick

Spec == Init /\ [][Next]_vars

TypeOK ==
    /\ pc \in {"load", "awaitSingle", "awaitRace", "cooldown", "done", "caught"}
    /\ exited \in BOOLEAN
    /\ idx \in 0..(NumScenarios + 1)
    /\ concurrency \in Concurrencies
    /\ previousScenarioFailed \in BOOLEAN
    /\ safetyMonitor \in BOOLEAN
    /\ monitor \in {"none", "running", "stopped"}
    /\ memTotal \in MemTotals
    /\ rssMemoryMB \in RssValues \cup {0}
    /\ srv \in ServerShapes
    /\ \A i \in Scenarios :
         /\ race[i] \in {"none", "pending", "resolved", "rejected"}
         /\ timer[i] \in {"unset", "armed", "fired"}
         /\ Len(requests[i]) <= maxConcurrentRequests + 1
         /\ log[i] \subseteq {"header", "skip", "requestFailed", "safety", "someFailed"}
    /\ cooldown.st \in {"unset", "armed", "fired"}
    /\ cooldown.left \in 0..minDelayBetweenScenariosSec
    /\ result.valid \in BOOLEAN
    /\ ratePercent.nan \in BOOLEAN
    /\ ratePercent.hundredths \in 0..10000
    /\ sinceEnd \in 0..minDelayBetweenScenariosSec
    /\ issued \in 0..(NumScenarios * maxConcurrentRequests)
    /\ Len(monitorCalls) <= 3
    /\ Len(settledOrder) <= maxConcurrentRequests
    /\ firstSuccessfulResult \in 0..maxConcurrentRequests

----------------------------------------------------------------------------
(* What the claims speak of.                                               *)

Executed(i) == "header" \in log[i]
Skipped(i) == "skip" \in log[i]
TimedOut(i) == "safety" \in log[i]
\* The scenarios that runBenchmarks marks as failed.
MarkedFailed(i) == log[i] \cap {"safety", "requestFailed"} # {}
\* A scenario with a timeout or with any failed request, on either path.
HadFailure(i) == log[i] \cap {"safety", "requestFailed", "someFailed"} # {}
TotalInFlight ==
    Cardinality({<<i, k>> \in Scenarios \X (1..(maxConcurrentRequests + 1)) :
                    k \in InFlight(requests, i)})
\* The scenario that has just returned and whose cooldown is running.
JustReturned == pc = "cooldown" /\ idx \in Scenarios /\ concurrency # 1

----------------------------------------------------------------------------
\* C1 as stated: once any scenario has failed, by timeout or by a request
\* error on the single-request path or on the concurrent path, no later
\* scenario has a request in flight, and when the run completes every later
\* scenario has its skip notice.
C1_SkipAfterAnyFailure ==
    \A i, j \in Scenarios :
        (i < j /\ HadFailure(i)) =>
            /\ InFlight(requests, j) = {}
            /\ (pc = "done" => Skipped(j))

\* C1 amended: once a scenario has failed by timeout or by a failed request
\* on the single-request path, no later scenario is executed or issues a
\* request, and when the run completes every later scenario has its skip
\* notice.  (Failed requests on the concurrent path do not stop the run.)
C1_SkipAfterMarkedFailure ==
    \A i, j \in Scenarios :
        (i < j /\ MarkedFailed(i)) =>
            /\ ~Executed(j)
            /\ requests[j] = <<>>
            /\ (pc = "done" => Skipped(j))

C1_Witness ==
    /\ pc = "done"
    /\ \E i, j \in Scenarios : i < j /\ MarkedFailed(i) /\ Skipped(j)

\* C2: whenever a request of a scenario is in flight, abandoned ones
\* included, no later scenario has been started, so no request of a later
\* scenario was dispatched meanwhile.
C2_NoOverlapAcrossScenarios ==
    \A i, j \in Scenarios :
        (i < j /\ InFlight(requests, i) # {}) =>
            (~Executed(j) /\ requests[j] = <<>>)

C2_Witness ==
    /\ pc = "done"
    /\ \E i \in Scenarios : i < NumScenarios /\ TimedOut(i)
                            /\ InFlight(requests, i) # {}

\* C3: a call of runConcurrentRequests that has returned ended either with
\* every request settled, and then returns min(N, maxConcurrentRequests)
\* settled outcomes and no safetyTriggered, or with the timeout, and then
\* returns no outcome and safetyTriggered.
C3_OutcomeCount ==
    JustReturned =>
        /\ result.valid
        /\ race[idx] \in {"resolved", "rejected"}
        /\ race[idx] = "resolved" =>
              /\ ~result.safetyTriggered
              /\ Len(result.results) = Min(concurrency, maxConcurrentRequests)
              /\ \A k \in DOMAIN result.results :
                    result.results[k].state = "fulfilled"
        /\ race[idx] = "rejected" =>
              /\ timer[idx] = "fired"
              /\ result.safetyTriggered
              /\ result.results = <<>>
              /\ previousScenarioFailed

C3_Witness ==
    /\ JustReturned
    /\ concurrency > maxConcurrentRequests
    /\ Len(result.results) = maxConcurrentRequests
    /\ \E k \in DOMAIN result.results : result.results[k].success
    /\ \E k \in DOMAIN result.results : ~result.results[k].success

\* C4: never more than maxConcurrentRequests requests are in flight, and the
\* SAFETY LIMIT APPLIED notice of the scenario being run is there exactly
\* when its requested count exceeds maxConcurrentRequests.
C4_ClampAndNotice ==
    /\ TotalInFlight <= maxConcurrentRequests
    /\ ("clamp" \in report) <=> (concurrency > maxConcurrentRequests)

C4_Witness ==
    /\ "clamp" \in report
    /\ TotalInFlight = maxConcurrentRequests

\* C5: the watchdog is set for as long as the run is under way; an RSS it
\* observes strictly above min(total * percent / 100, absolute limit) has
\* terminated the process; and once terminated nothing changes any more
\* (no dispatch, no scenario start, no notice).
C5_WatchdogTerminates ==
    /\ [](pc \in {"awaitSingle", "awaitRace", "cooldown"} => safetyMonitor)
    /\ [](rssMemoryMB * 100 > Min(memTotal * maxMemoryThresholdPercent,
                                  maxMemoryThresholdMB * 100) => exited)
    /\ [][exited => UNCHANGED vars]_vars

C5_Witness ==
    /\ exited
    /\ "safetyAlert" \in out
    /\ pc = "cooldown"
    /\ rssMemoryMB * 100 > memTotal * maxMemoryThresholdPercent

\* C6: after a scenario timeout the only way the process ends early is the
\* memory watchdog; runBenchmarks does not land in its catch block, it is in
\* the cooldown or has completed, and on completion every remaining scenario
\* was skipped and the watchdog is cleared.
C6_TimeoutIsNotFatal ==
    \A i \in Scenarios :
        TimedOut(i) =>
            /\ pc \in {"cooldown", "done"}
            /\ "benchmarkFailed" \notin out
            /\ exited => "safetyAlert" \in out
            /\ pc = "cooldown" => (idx = i /\ cooldown.st = "armed")
            /\ pc = "done" =>
                  /\ ~safetyMonitor
                  /\ "complete" \in out
                  /\ \A j \in Scenarios : j > i => Skipped(j)

C6_Witness ==
    /\ pc = "done"
    /\ ~exited
    /\ TimedOut(1)
    /\ \A j \in Scenarios : j > 1 => Skipped(j)

\* C7: a race won by the requests leaves the scenario unmarked, and the
\* timer that fires afterwards changes nothing but itself; after a race won
\* by the timer, the settling of an abandoned request changes nothing but
\* that request.
C7_RaceIsFinal ==
    /\ [](\A i \in Scenarios : race[i] = "resolved" => ~TimedOut(i))
    /\ [](JustReturned /\ race[idx] = "resolved" =>
             ~result.safetyTriggered /\ ~previousScenarioFailed)
    /\ [][\A i \in Scenarios :
            /\ (race[i] # "pending" /\ timer[i] = "armed" /\ timer'[i] = "fired") =>
                  UNCHANGED <<pc, exited, idx, concurrency, previousScenarioFailed,
                              safetyMonitor, requests, race, cooldown, monitor,
                              result, rate, ratePercent, log, report, out>>
            /\ (race[i] = "rejected" /\ requests'[i] # requests[i]) =>
                  UNCHANGED <<pc, exited, idx, concurrency, previousScenarioFailed,
                              safetyMonitor, race, timer, cooldown, monitor,
                              result, rate, ratePercent, log, report, out>>]_vars

C7_Witness ==
    \E i \in Scenarios :
        /\ race[i] = "resolved"
        /\ timer[i] = "fired"
        /\ ~previousScenarioFailed
        /\ i < idx

\* C8: a scenario other than the first is started only when the full
\* cooldown has elapsed since the scenario before it ended.
C8_FullCooldown ==
    [][\A j \in Scenarios :
          (j > 1 /\ ~Executed(j) /\ Executed(j)') =>
              sinceEnd >= minDelayBetweenScenariosSec]_vars

C8_Witness ==
    /\ idx = 2
    /\ pc = "awaitRace"
    /\ "someFailed" \in log[1]
    /\ InFlight(requests, 2) # {}

\* C9: no promise of sendImageResizeRequest is ever rejected and a failed
\* outcome carries its error; the safety path is entered by the timer only;
\* and the success rate is printed over all returned outcomes, the failed
\* ones included.
C9_ErrorsBecomeOutcomes ==
    /\ \A i \in Scenarios : \A k \in DOMAIN requests[i] :
          /\ requests[i][k].state # "rejected"
          /\ (requests[i][k].state = "fulfilled" /\ ~requests[i][k].success) =>
                requests[i][k].error
    /\ \A i \in Scenarios : (race[i] = "rejected" \/ TimedOut(i)) => timer[i] = "fired"
    /\ (pc = "caught" /\ idx \in Scenarios) => "completed" \in report
    /\ (JustReturned /\ race[idx] = "resolved") =>
          /\ \A k \in DOMAIN result.results :
                ~result.results[k].success => result.results[k].error
          /\ rate = <<Cardinality(Successful(result.results)), Len(result.results)>>

C9_Witness ==
    /\ JustReturned
    /\ race[idx] = "resolved"
    /\ timer[idx] = "armed"
    /\ \E k \in DOMAIN result.results : ~result.results[k].success
    /\ rate[1] < rate[2]

\* C10 as stated: a successful response without timings, without sizes or
\* without both is tolerated on both paths: after it the run is not aborted
\* by an escaping error and the scenario is not marked failed.
C10_MissingFieldsTolerated ==
    /\ (pc = "caught" /\ idx \in Scenarios) => "completed" \notin report
    /\ \A i \in Scenarios :
          (Executed(i) /\ "completed" \in report /\ idx = i) => ~MarkedFailed(i)

\* C11: a concurrent scenario that returns with no successful outcome has
\* printed no average duration, no average processing time and no
\* compression ratio, has returned every (failed) outcome, and is not marked
\* as failed.
C11_NoSuccessNoAverages ==
    (/\ JustReturned
     /\ race[idx] = "resolved"
     /\ \A k \in DOMAIN result.results : ~result.results[k].success) =>
        /\ "averages" \notin report
        /\ "compression" \notin report
        /\ Len(result.results) = Min(concurrency, maxConcurrentRequests)
        /\ ~result.safetyTriggered
        /\ ~previousScenarioFailed
        /\ ~MarkedFailed(idx)

C11_Witness ==
    /\ JustReturned
    /\ race[idx] = "resolved"
    /\ Len(result.results) = maxConcurrentRequests
    /\ \A k \in DOMAIN result.results : ~result.results[k].success
    /\ "results" \in report
    /\ "averages" \notin report

\* C12: whenever runConcurrentRequests prints its "Success rate" line, the
\* rate on it is the number of successful outcomes divided by the clamped
\* request count: a number, for every requested count, zero included.
C12_RateIsQuotient ==
    (JustReturned /\ race[idx] = "resolved") =>
        LET attempted == Min(concurrency, maxConcurrentRequests)
            successes == Cardinality({k \in DOMAIN result.results :
                                         result.results[k].success})
            diff == ratePercent.hundredths * attempted - successes * 10000
        IN  /\ rate = <<successes, attempted>>
            /\ ~ratePercent.nan
            /\ 2 * diff <= attempted
            /\ -2 * diff <= attempted

\* C20 as stated: at the end of a run the suggestions block is printed if
\* and only if no scenario had a failure, where a concurrent scenario some
\* of whose requests failed counts as a failure.
C20_SuggestionsIffNoFailure ==
    pc = "done" =>
        (("suggestions" \in out) <=> (\A i \in Scenarios : ~HadFailure(i)))

\* C20: the suggestions block is printed if and only if the loop over the
\* scenarios was left normally and no scenario was marked as failed, that
\* is, none timed out and no single request failed.  Failed requests of a
\* concurrent scenario do not suppress it; a run that ends in the outer
\* catch or in process.exit prints none.
C20_SuggestionsIffNoneMarked ==
    ("suggestions" \in out) <=>
        (pc = "done" /\ \A i \in Scenarios : ~MarkedFailed(i))

C20_Witness ==
    /\ pc = "done"
    /\ "suggestions" \in out
    /\ \E i \in Scenarios : "someFailed" \in log[i]

----------------------------------------------------------------------------
(* ResourceMonitor (benchmark.js:23-139), one instance taken by itself.    *)
(* Its callers (lines 276-298, 373-379) construct it, call start() once,  *)
(* and later stop() and printResults(); start() is called here only while *)
(* this.interval is null, as they do.                                      *)

\* The longest sample sequence explored.
MaxSamples == 3

\* JavaScript numbers are binary floating point, rounded to nearest, ties
\* to even, with a 53-bit significand: here with this many bits, and with
\* 1 as the smallest spacing.
MantissaBits == 5

RECURSIVE Exponent(_, _, _)
Exponent(a, b, e) ==
    IF a < (2 ^ (MantissaBits + e)) * b THEN e ELSE Exponent(a, b, e + 1)

\* The number nearest to a / b (a >= 0, b > 0).
RoundToFloat(a, b) ==
    LET e == Exponent(a, b, 0)
        d == b * (2 ^ e)
        f == a \div d
        r == a % d
        n == IF 2 * r < d THEN f
             ELSE IF 2 * r > d THEN f + 1
             ELSE IF f % 2 = 0 THEN f ELSE f + 1
    IN  n * (2 ^ e)

\* x + y and x / y of numbers.
Plus(x, y) == RoundToFloat(x + y, 1)
Divide(x, y) == RoundToFloat(x, y)
Max(x, y) == IF x >= y THEN x ELSE y

\* benchmark.js:45-63: what one call of sample() may read.  Memory is in
\* MB, with values whose sums are exact (in the program they are byte
\* counts divided by 2^20, far below 2^53); the CPU percentage is a
\* quotient of measured times, any number.
SampleValues ==
    { [cpu |-> 0,  memory |-> [rss |-> 4, heapTotal |-> 2, heapUsed |-> 1, external |-> 0]],
      [cpu |-> 26, memory |-> [rss |-> 5, heapTotal |-> 3, heapUsed |-> 2, external |-> 1]],
      [cpu |-> 50, memory |-> [rss |-> 7, heapTotal |-> 3, heapUsed |-> 3, external |-> 1]] }

\* benchmark.js:54-63: sample() pushes one reading.
sample(smpls, reading) == Append(smpls, reading)

\* benchmark.js:81, 94, 109: the all-zero reading.
Zero == [cpu |-> 0,
         memory |-> [rss |-> 0, heapTotal |-> 0, heapUsed |-> 0, external |-> 0]]

\* benchmark.js:85-93
SumStep(acc, s) ==
    [cpu |-> Plus(acc.cpu, s.cpu),
     memory |-> [rss |-> Plus(acc.memory.rss, s.memory.rss),
                 heapTotal |-> Plus(acc.memory.heapTotal, s.memory.heapTotal),
                 heapUsed |-> Plus(acc.memory.heapUsed, s.memory.heapUsed),
                 external |-> Plus(acc.memory.external, s.memory.external)]]

\* benchmark.js:85-94: reduce() from the left, starting from acc.
RECURSIVE SumOf(_, _)
SumOf(smpls, acc) ==
    IF smpls = <<>> THEN acc
    ELSE SumOf(Tail(smpls), SumStep(acc, Head(smpls)))

\* benchmark.js:100-108
PeakStep(acc, s) ==
    [cpu |-> Max(acc.cpu, s.cpu),
     memory |-> [rss |-> Max(acc.memory.rss, s.memory.rss),
                 heapTotal |-> Max(acc.memory.heapTotal, s.memory.heapTotal),
                 heapUsed |-> Max(acc.memory.heapUsed, s.memory.heapUsed),
                 external |-> Max(acc.memory.external, s.memory.external)]]

\* benchmark.js:100-109: reduce() from the left, starting from acc.
RECURSIVE PeakOf(_, _)
PeakOf(smpls, acc) ==
    IF smpls = <<>> THEN acc
    ELSE PeakOf(Tail(smpls), PeakStep(acc, Head(smpls)))

\* benchmark.js:84-124: the summary of a non-empty sequence.  Its field
\* `samples` is this.samples itself, not a copy: it is read in `samples`.
Summarize(smpls) ==
    LET sum == SumOf(smpls, Zero)
        count == Len(smpls)
        peak == PeakOf(smpls, Zero)
    IN  [shape |-> "full",
         average |-> [cpu |-> Divide(sum.cpu, count),
                      memory |-> [rss |-> Divide(sum.memory.rss, count),
                                  heapTotal |-> Divide(sum.memory.heapTotal, count),
                                  heapUsed |-> Divide(sum.memory.heapUsed, count),
                                  external |-> Divide(sum.memory.external, count)]],
         peak |-> peak]

\* benchmark.js:80-82: what getResults returns for no sample.
ZeroSummary == [shape |-> "zero", cpu |-> Zero.cpu, memory |-> Zero.memory]

\* A variant without the test for an empty sequence: 0 / 0 in every
\* average.
getResultsUnguarded(smpls) ==
    IF Len(smpls) = 0
    THEN [shape |-> "full", average |-> "NaN", peak |-> Zero]
    ELSE Summarize(smpls)

\* benchmark.js:79-125
getResults(smpls) ==
    IF Len(smpls) = 0 THEN ZeroSummary ELSE Summarize(smpls)

\* setInterval returns a handle that no live timer has.
NewHandle == CHOOSE h \in 1..(Cardinality(intervals) + 1) : h \notin intervals

\* benchmark.js:33-43
start ==
    /\ interval = 0
    /\ samples' = <<>>
    /\ interval' = NewHandle
    /\ intervals' = intervals \cup {NewHandle}
    /\ called' = "start"
    /\ UNCHANGED summary

\* benchmark.js:40-42: a live interval timer fires and calls sample().
TimerCallback ==
    /\ intervals # {}
    /\ Len(samples) < MaxSamples - 1
    /\ \E reading \in SampleValues : samples' = sample(samples, reading)
    /\ called' = "tick"
    /\ UNCHANGED <<interval, intervals, summary>>

\* A variant of stop() that forgets the handle without clearing the timer.
stopWithoutClear ==
    /\ interval # 0
    /\ interval' = 0
    /\ \E reading \in SampleValues :
          LET smpls == sample(samples, reading)
          IN  samples' = smpls /\ summary' = getResults(smpls)
    /\ called' = "stop"
    /\ UNCHANGED intervals

\* benchmark.js:67-77
stop ==
    /\ interval # 0
    /\ IF interval # 0
       THEN intervals' = intervals \ {interval} /\ interval' = 0
       ELSE UNCHANGED <<interval, intervals>>
    /\ \E reading \in SampleValues :
          LET smpls == sample(samples, reading)
          IN  samples' = smpls /\ summary' = getResults(smpls)
    /\ called' = "stop"

\* A call of getResults() (benchmark.js:79-125; printResults makes one at
\* line 128).
GetResults ==
    /\ summary' = getResults(samples)
    /\ called' = "getResults"
    /\ UNCHANGED <<samples, interval, intervals>>

\* The harness before runBenchmarks is called.
HarnessIdle ==
    /\ pc = "load"
    /\ exited = FALSE
    /\ idx = 0
    /\ concurrency = 0
    /\ previousScenarioFailed = FALSE
    /\ safetyMonitor = FALSE
    /\ memTotal = 8192
    /\ rssMemoryMB = 0
    /\ srv = [timings |-> TRUE, sizes |-> TRUE]
    /\ requests = [i \in Scenarios |-> <<>>]
    /\ race = [i \in Scenarios |-> "none"]
    /\ timer = [i \in Scenarios |-> "unset"]
    /\ cooldown = Unset
    /\ monitor = "none"
    /\ result = NoResult
    /\ rate = <<0, 0>>
    /\ ratePercent = NoPercent
    /\ log = [i \in Scenarios |-> {}]
    /\ report = {}
    /\ out = {}
    /\ sinceEnd = minDelayBetweenScenariosSec
    /\ monitorCalls = <<>>
    /\ firstSuccessfulResult = 0
    /\ settledOrder = <<>>
    /\ issued = 0

InitMonitor == HarnessIdle /\ ResourceMonitorNew /\ UploadIdle /\ PayloadIdle /\ QualityIdle

NextMonitor ==
    \/ start /\ UNCHANGED <<harnessVars, uploadVars, payloadVars, qualityVars>>
    \/ TimerCallback /\ UNCHANGED <<harnessVars, uploadVars, payloadVars, qualityVars>>
    \/ stop /\ UNCHANGED <<harnessVars, uploadVars, payloadVars, qualityVars>>
    \/ GetResults /\ UNCHANGED <<harnessVars, uploadVars, payloadVars, qualityVars>>

SpecMonitor == InitMonitor /\ [][NextMonitor]_vars

C15_EmptyIsZeroAndPure ==
    /\ []((called = "getResults" /\ samples = <<>>) =>
            /\ summary.shape = "zero"
            /\ summary.cpu = 0
            /\ summary.memory.rss = 0
            /\ summary.memory.heapTotal = 0
            /\ summary.memory.heapUsed = 0
            /\ summary.memory.external = 0)
    /\ [][called' = "getResults" =>
            UNCHANGED <<samples, interval, intervals>>]_vars

C15_Witness ==
    /\ called = "getResults"
    /\ samples = <<>>
    /\ interval # 0
    /\ summary = ZeroSummary

\* C16: for every non-empty sample sequence the summary has
\* peak.cpu >= average.cpu and, for rss, heapTotal, heapUsed and external,
\* peak >= average.
C16_PeakAtLeastAverage ==
    summary.shape = "full" =>
        /\ summary.peak.cpu >= summary.average.cpu
        /\ summary.peak.memory.rss >= summary.average.memory.rss
        /\ summary.peak.memory.heapTotal >= summary.average.memory.heapTotal
        /\ summary.peak.memory.heapUsed >= summary.average.memory.heapUsed
        /\ summary.peak.memory.external >= summary.average.memory.external

----------------------------------------------------------------------------
(* The upload endpoint (unnamed/part_000:85-224), one request.  The older *)
(* server (unnamed/part_001:64-107) has the same control flow without the *)
(* timings and sizes.                                                      *)

\* The most files under `media` in one request.
MaxFiles == 2

FileNames == {"a.jpg", "b.jpg"}

\* resultSize of a processImage call, in KB.
ResultSizes == {1, 2}

\* The three processImage calls of lines 127-148, in their order.
Tiers == <<"low", "medium", "original">>

\* What express-fileupload may hand to the handler: no req.files, files
\* without the field media, or one or more files under media.
Requests ==
    { [hasFiles |-> FALSE, hasMedia |-> FALSE, names |-> <<>>],
      [hasFiles |-> TRUE, hasMedia |-> FALSE, names |-> <<>>] }
    \cup { [hasFiles |-> TRUE, hasMedia |-> TRUE, names |-> ns] :
             ns \in UNION { [1..n -> FileNames] : n \in 1..MaxFiles } }

\* The handler's state as a record.
Handler == [req |-> req, upc |-> upc, fileIndex |-> fileIndex,
            tierIndex |-> tierIndex, processedImages |-> processedImages,
            fileSizes |-> fileSizes, timings |-> timings, sizes |-> sizes,
            codec |-> codec, responses |-> responses, disk |-> disk,
            saved |-> saved]

HandlerBecomes(h) ==
    /\ req' = h.req
    /\ upc' = h.upc
    /\ fileIndex' = h.fileIndex
    /\ tierIndex' = h.tierIndex
    /\ processedImages' = h.processedImages
    /\ fileSizes' = h.fileSizes
    /\ timings' = h.timings
    /\ sizes' = h.sizes
    /\ codec' = h.codec
    /\ responses' = h.responses
    /\ disk' = h.disk
    /\ saved' = h.saved
    /\ UNCHANGED <<harnessVars, samplerVars, payloadVars, qualityVars>>

\* unnamed/part_000:90
NoFilesUploaded(r) == ~r.hasFiles \/ ~r.hasMedia

\* unnamed/part_000:94: a single file is wrapped in an array.
mediaFiles(r) == r.names

\* unnamed/part_000:123: fileBuffer.length / 1024
OriginalFileSize(name) == IF name = "a.jpg" THEN 4 ELSE 6

\* A variant that answers a request without files with another status.
RejectNoFilesWrongStatus(h) ==
    [h EXCEPT !.upc = "sent",
              !.responses = Append(@, [status |-> 500,
                                      text |-> "No files were uploaded."])]

\* unnamed/part_000:91
RejectNoFiles(h) ==
    [h EXCEPT !.upc = "sent",
              !.responses = Append(@, [status |-> 400,
                                      text |-> "No files were uploaded."])]

\* A variant of += that assigns.
AccumulateOverwrite(total, size) == size

\* unnamed/part_000:124, 132, 140, 148: total += size
Accumulate(total, size) == total + size

\* unnamed/part_000:127-128, 135-136, 143-144: processImage is called for
\* tier k of file i and awaited.
Invoke(h, i, k) ==
    [h EXCEPT !.fileIndex = i, !.tierIndex = k, !.upc = "transform",
              !.codec = Append(@, [file |-> i, tier |-> Tiers[k],
                                   result |-> "pending", size |-> 0])]

\* unnamed/part_000:115-128: the loop body for file i, up to its first
\* await.
BeginFile(h, i) ==
    LET name == mediaFiles(h.req)[i]
        h1 == [h EXCEPT !.fileSizes = [low |-> 0, medium |-> 0, original |-> 0],
                        !.sizes.totalOriginalSize =
                            Accumulate(@, OriginalFileSize(name))]
    IN  Invoke(h1, i, 1)

\* unnamed/part_000:163-164 and 196-200: saveProcessedImages is called
\* and awaits its first saveImageToDisk.
BeginSave(h) == [h EXCEPT !.upc = "saving", !.saved = 0]

\* unnamed/part_000:115, 163: the loop goes to the next file or ends.
NextFile(h) ==
    IF h.fileIndex < Len(mediaFiles(h.req))
    THEN BeginFile(h, h.fileIndex + 1)
    ELSE BeginSave(h)

\* unnamed/part_000:127-156: an awaited processImage resolved with a
\* buffer of `size` KB.
AfterTransform(h, size) ==
    LET tier == Tiers[h.tierIndex]
        name == mediaFiles(h.req)[h.fileIndex]
        h1 == [h EXCEPT !.codec[Len(h.codec)].result = "ok",
                        !.codec[Len(h.codec)].size = size,
                        !.processedImages[tier] = Append(@, name),
                        !.fileSizes[tier] = size,
                        !.sizes.totalProcessedSize[tier] = Accumulate(@, size)]
    IN  IF h.tierIndex < Len(Tiers)
        THEN Invoke(h1, h.fileIndex, h.tierIndex + 1)
        ELSE NextFile([h1 EXCEPT
                 !.timings.files = Append(@, [fileName |-> name]),
                 !.sizes.files = Append(@, [fileName |-> name,
                                            qualities |-> h1.fileSizes])])

\* A variant whose catch block goes on with the next file.
TransformFailedContinues(h) ==
    NextFile([h EXCEPT !.codec[Len(h.codec)].result = "failed"])

\* unnamed/part_000:158-160: an awaited processImage rejected.
TransformFailed(h) ==
    [h EXCEPT !.codec[Len(h.codec)].result = "failed",
              !.upc = "sent",
              !.responses = Append(@, [status |-> 500,
                                      text |-> "Error processing file: ",
                                      fileName |-> mediaFiles(h.req)[h.fileIndex]])]

\* unnamed/part_000:165-182
SendOk(h) ==
    [h EXCEPT !.upc = "sent",
              !.responses = Append(@, [status |-> 200,
                                      message |-> "Files uploaded and processed successfully",
                                      timings |-> h.timings,
                                      sizes |-> h.sizes])]

\* A variant in which a failed write is answered with an error.
SaveFailedAnswers500(h) ==
    [h EXCEPT !.upc = "sent",
              !.responses = Append(@, [status |-> 500,
                                      text |-> "Error saving processed images"])]

\* unnamed/part_000:221-223 and 165-182: the catch block of
\* saveProcessedImages logs the error and returns normally, so the handler
\* goes on to its response.
SaveFailed(h) == SendOk(h)

\* unnamed/part_000:207-218: the paths saveProcessedImages writes, in
\* order: output/<tier>/<tier>_<name>.
SavePaths(h) ==
    h.processedImages.low \o h.processedImages.medium \o h.processedImages.original

SaveTier(h, j) ==
    IF j <= Len(h.processedImages.low) THEN "low"
    ELSE IF j <= Len(h.processedImages.low) + Len(h.processedImages.medium)
         THEN "medium" ELSE "original"

\* unnamed/part_000:85-128: a request arrives; the handler runs to its
\* first await or to its response.
Upload ==
    /\ upc = "listening"
    /\ \E r \in Requests :
          LET h == [Handler EXCEPT !.req = r]
          IN  HandlerBecomes(IF NoFilesUploaded(r)
                             THEN RejectNoFiles(h)
                             ELSE BeginFile(h, 1))

\* The codec returns a buffer.
TransformResolves ==
    /\ upc = "transform"
    /\ \E size \in ResultSizes : HandlerBecomes(AfterTransform(Handler, size))

\* The codec throws.
TransformRejects ==
    /\ upc = "transform"
    /\ HandlerBecomes(TransformFailed(Handler))

\* unnamed/part_000:186-193, 207-218: one saveImageToDisk succeeds; after
\* the last one the response is sent.
SaveResolves ==
    /\ upc = "saving"
    /\ LET j == saved + 1
           h1 == [Handler EXCEPT !.saved = j,
                                 !.disk = @ \cup {<<SaveTier(Handler, j),
                                                    SavePaths(Handler)[j]>>}]
       IN  HandlerBecomes(IF j = Len(SavePaths(Handler)) THEN SendOk(h1) ELSE h1)

\* unnamed/part_000:221-223: a write fails; saveProcessedImages logs the
\* error and returns, and the response is sent.
SaveRejects ==
    /\ upc = "saving"
    /\ HandlerBecomes(SaveFailed(Handler))

InitUpload == HarnessIdle /\ ResourceMonitorNew /\ UploadIdle /\ PayloadIdle /\ QualityIdle

NextUpload ==
    \/ Upload
    \/ TransformResolves
    \/ TransformRejects
    \/ SaveResolves
    \/ SaveRejects

SpecUpload == InitUpload /\ [][NextUpload]_vars

\* C17: when a transform fails, it is the last call of the codec for the
\* request (no retry, no later tier, no later file), the request has
\* exactly one response, a 500 that names the file, and nothing was
\* written to disk.
C17_TransformFailureAbortsBatch ==
    \A j \in DOMAIN codec :
        codec[j].result = "failed" =>
            /\ j = Len(codec)
            /\ upc = "sent"
            /\ Len(responses) = 1
            /\ responses[1].status = 500
            /\ responses[1].fileName = req.names[codec[j].file]
            /\ disk = {}

C17_Witness ==
    /\ Len(req.names) = MaxFiles
    /\ Len(codec) = 2
    /\ codec[2].result = "failed"
    /\ codec[1].result = "ok"
    /\ upc = "sent"

\* C18: a request without req.files, or without the field media, gets one
\* response, a 400; the codec is not called and nothing is written.
C18_NoFilesIs400 ==
    (upc # "listening" /\ (~req.hasFiles \/ ~req.hasMedia)) =>
        /\ upc = "sent"
        /\ Len(responses) = 1
        /\ responses[1].status = 400
        /\ codec = <<>>
        /\ disk = {}

C18_Witness ==
    /\ upc = "sent"
    /\ req.hasFiles
    /\ ~req.hasMedia
    /\ Len(responses) = 1
    /\ responses[1].status = 400

RECURSIVE TierTotal(_, _)
TierTotal(calls, tier) ==
    IF calls = <<>> THEN 0
    ELSE (IF Head(calls).tier = tier THEN Head(calls).size ELSE 0)
         + TierTotal(Tail(calls), tier)

\* C19: once a request with k >= 1 files none of whose transforms failed
\* is answered, the codec was called 3k times, low, medium, original for
\* the first file, then for the second, and so on; the one response is a
\* 200 with k timing entries and k size entries, in the order of the
\* files, and its three totals are the sums of the sizes the codec
\* returned for that tier.
C19_ThreeCallsPerFile ==
    (/\ upc = "sent"
     /\ req.hasFiles /\ req.hasMedia
     /\ \A j \in DOMAIN codec : codec[j].result # "failed") =>
        LET k == Len(req.names)
            body == responses[1]
        IN  /\ Len(responses) = 1
            /\ body.status = 200
            /\ Len(codec) = 3 * k
            /\ \A j \in 1..(3 * k) :
                  /\ codec[j].file = ((j - 1) \div 3) + 1
                  /\ codec[j].tier = Tiers[((j - 1) % 3) + 1]
                  /\ codec[j].result = "ok"
            /\ Len(body.timings.files) = k
            /\ Len(body.sizes.files) = k
            /\ \A i \in 1..k :
                  /\ body.timings.files[i].fileName = req.names[i]
                  /\ body.sizes.files[i].fileName = req.names[i]
                  /\ \A n \in 1..3 :
                        body.sizes.files[i].qualities[Tiers[n]] =
                            codec[3 * (i - 1) + n].size
            /\ \A n \in 1..3 :
                  body.sizes.totalProcessedSize[Tiers[n]] = TierTotal(codec, Tiers[n])

C19_Witness ==
    /\ upc = "sent"
    /\ Len(req.names) = MaxFiles
    /\ Len(responses) = 1
    /\ responses[1].status = 200
    /\ responses[1].sizes.totalProcessedSize.low = 3
    /\ Len(codec) = 3 * MaxFiles

----------------------------------------------------------------------------
(* createTestImageBuffer (benchmark.js:142-186), one call.  Lengths are in *)
(* bytes, with a megabyte of BytesPerMB bytes.                             *)

\* 1024 * 1024, scaled down.
BytesPerMB == 4

\* The largest sizeMB and the longest seed file explored.
MaxSizeMB == 4
MaxSeedLength == 6

SizesMB == 0..MaxSizeMB
\* An existing seed file may be empty.
SeedLengths == 0..MaxSeedLength

\* The loop counter is a double: once it is 2^53, i++ leaves it as it is.
\* Here that value is beyond every count a finite loop needs.
MaxCounter == 2 * MaxSizeMB * BytesPerMB

\* benchmark.js:155
targetSizeBytes(mb) == mb * BytesPerMB

\* benchmark.js:156: Math.ceil(targetSizeBytes / sampleImage.length)
requiredCopies(target, seedLength) == (target + seedLength - 1) \div seedLength

\* benchmark.js:160: i < requiredCopies.  With an empty seed the quotient
\* of line 156 is target / 0: Infinity for a positive target, above every
\* i, and NaN for a target of zero, for which every comparison is false.
LoopContinues(i, target, seedLength) ==
    IF seedLength = 0 THEN target > 0
    ELSE i < requiredCopies(target, seedLength)

\* A variant that never trims.
TrimNever(len, target) == len

\* benchmark.js:165-167: the length after buffer.subarray(0, targetSizeBytes)
Trim(len, target) == IF len > target THEN target ELSE len

\* benchmark.js:170-173: the length after the padding is appended
Pad(len, target) == IF len < target THEN len + (target - len) ELSE len

\* benchmark.js:176-177: Math.abs(actualSizeMB - sizeMB) > 0.01, both sides
\* times 100 * BytesPerMB.
OutOfTolerance(len, mb) ==
    LET diff == len - targetSizeBytes(mb)
    IN  100 * (IF diff < 0 THEN -diff ELSE diff) > BytesPerMB

\* benchmark.js:142-159: the call, up to the loop.  Without the seed file
\* the process exits (line 148).
createTestImageBuffer ==
    /\ bpc = "idle"
    /\ \E mb \in SizesMB :
          \/ /\ bpc' = "exited"
             /\ sizeMB' = mb
             /\ UNCHANGED <<sampleImage, buffer, copied>>
          \/ \E seedLength \in SeedLengths :
                /\ sizeMB' = mb
                /\ sampleImage' = seedLength
                /\ buffer' = 0
                /\ copied' = 0
                /\ bpc' = "loop"
    /\ UNCHANGED <<warned, harnessVars, samplerVars, uploadVars, qualityVars>>

\* benchmark.js:160-162: one turn of the loop.
Concat ==
    /\ bpc = "loop"
    /\ LoopContinues(copied, targetSizeBytes(sizeMB), sampleImage)
    /\ buffer' = buffer + sampleImage
    /\ copied' = IF copied < MaxCounter THEN copied + 1 ELSE copied
    /\ UNCHANGED <<sizeMB, sampleImage, bpc, warned, harnessVars, samplerVars,
                   uploadVars, qualityVars>>

\* benchmark.js:160, 164-180: the loop ends; trim, pad, verify, return.
ReturnBuffer ==
    /\ bpc = "loop"
    /\ ~LoopContinues(copied, targetSizeBytes(sizeMB), sampleImage)
    /\ LET target == targetSizeBytes(sizeMB)
           len == Pad(Trim(buffer, target), target)
       IN  /\ buffer' = len
           /\ warned' = OutOfTolerance(len, sizeMB)
    /\ bpc' = "returned"
    /\ UNCHANGED <<sizeMB, sampleImage, copied, harnessVars, samplerVars,
                   uploadVars, qualityVars>>

InitPayload == HarnessIdle /\ ResourceMonitorNew /\ UploadIdle /\ PayloadIdle /\ QualityIdle

NextPayload ==
    \/ createTestImageBuffer
    \/ Concat
    \/ ReturnBuffer

SpecPayload == InitPayload /\ [][NextPayload]_vars

\* C13: for every target size and every seed length of one byte or more
\* (longer than the target, dividing it, not dividing it) the buffer
\* returned is within 0.01 MB of sizeMB megabytes; it is in fact exactly
\* that long, and no warning is printed.
C13_PayloadWithinTolerance ==
    bpc = "returned" =>
        /\ ~OutOfTolerance(buffer, sizeMB)
        /\ buffer = sizeMB * BytesPerMB
        /\ ~warned

C13_Witness ==
    /\ bpc = "returned"
    /\ sizeMB > 0
    /\ copied > 1
    /\ copied * sampleImage > sizeMB * BytesPerMB
    /\ buffer = sizeMB * BytesPerMB

----------------------------------------------------------------------------
(* Further claims about the harness (Spec).                                *)

\* C24: whenever runBenchmarks has ended and the process has not been
\* terminated, by the end of the loop or by the outer catch, the watchdog
\* interval started at run entry is cancelled.
C24_WatchdogCancelledAtExit ==
    (pc \in {"done", "caught"} /\ ~exited) => ~safetyMonitor

\* C21: the number of requests issued during one run never exceeds
\* maxTotalRequestsPerRun, whatever the concurrencies of the scenarios.
C21_TotalRequestsCapped == issued <= maxTotalRequestsPerRun

\* The run up to the end of its first scenario, with the order of settling
\* kept.
NextRace ==
    \/ RunBenchmarks
    \/ RequestSettlesRecorded
    \/ ScenarioTimerFires

SpecRace == Init /\ [][NextRace]_vars

\* C22: when runConcurrentRequests returns from a race won by the
\* requests, in whatever order they settled, every request settled once,
\* the outcome at position k of the returned sequence is the outcome of
\* the k-th request issued, the success count printed is the number of
\* requests that succeeded, and the outcome taken for the compression
\* ratios is the successful one issued first.
C22_OrderOfCompletionIrrelevant ==
    (JustReturned /\ race[idx] = "resolved") =>
        LET n == Min(concurrency, maxConcurrentRequests)
            succeeded == {j \in DOMAIN settledOrder : settledOrder[j].success}
            issuedOk == {settledOrder[j].k : j \in succeeded}
        IN  /\ Len(settledOrder) = n
            /\ {settledOrder[j].k : j \in DOMAIN settledOrder} = 1..n
            /\ Len(result.results) = n
            /\ \A j \in DOMAIN settledOrder :
                  result.results[settledOrder[j].k].success = settledOrder[j].success
            /\ rate[1] = Cardinality(succeeded)
            /\ firstSuccessfulResult =
                  (IF issuedOk = {} THEN 0
                   ELSE CHOOSE k \in issuedOk : \A m \in issuedOk : k <= m)
            /\ ("compression" \in report) <=> (issuedOk # {} /\ srv.sizes)

\* The request issued first settled last, and both succeeded.
C22_Witness ==
    /\ JustReturned
    /\ race[idx] = "resolved"
    /\ Len(settledOrder) = maxConcurrentRequests
    /\ settledOrder[1].k = maxConcurrentRequests
    /\ settledOrder[maxConcurrentRequests].k = 1
    /\ \A j \in DOMAIN settledOrder : settledOrder[j].success
    /\ firstSuccessfulResult = 1
    /\ "compression" \in report

\* C25: while a scenario awaits its requests its ResourceMonitor has been
\* started once and is running; once the scenario has ended (all requests
\* succeeded, some or all failed, or the timeout won) the monitor has been
\* started once and stopped once, every printResults comes after the stop,
\* and its timer is not active.
C25_MonitorStartedAndStoppedOnce ==
    /\ pc \in {"awaitSingle", "awaitRace"} =>
          monitor = "running" /\ monitorCalls = <<"start">>
    /\ pc \in {"cooldown", "done", "caught"} =>
          /\ monitor # "running"
          /\ monitorCalls \in {<<>>, <<"start", "stop">>,
                               <<"start", "stop", "printResults">>}
          /\ (monitorCalls = <<>>) <=> (monitor = "none")
    /\ \A i \in Scenarios :
          (pc = "cooldown" /\ idx = i) =>
              monitorCalls = (IF TimedOut(i) THEN <<"start", "stop">>
                              ELSE <<"start", "stop", "printResults">>)

C25_Witness ==
    /\ pc = "cooldown"
    /\ idx = 2
    /\ TimedOut(2)
    /\ InFlight(requests, 2) # {}
    /\ monitor = "stopped"
    /\ monitorCalls = <<"start", "stop">>

----------------------------------------------------------------------------
(* createTestImageBuffer keeps running: the loop is synchronous code, so   *)
(* a turn that can be taken is taken.                                      *)

SpecPayloadFair ==
    InitPayload /\ [][NextPayload]_vars /\ WF_vars(Concat) /\ WF_vars(ReturnBuffer)

\* C23: for every seed file that exists, one of length zero included, a
\* call of createTestImageBuffer that has entered its loop returns.
C23_PayloadTerminates == (bpc = "loop") ~> (bpc = "returned")

----------------------------------------------------------------------------
(* Further claims about the upload handler.                                *)

RECURSIVE OriginalTotal(_)
OriginalTotal(names) ==
    IF names = <<>> THEN 0
    ELSE OriginalFileSize(Head(names)) + OriginalTotal(Tail(names))

\* The response body as a function of the request and of what the codec
\* returned, and of nothing else.
BodyOf(r, calls) ==
    LET names == mediaFiles(r)
        k == Len(names)
    IN  [status |-> 200,
         message |-> "Files uploaded and processed successfully",
         timings |-> [files |-> [i \in 1..k |-> [fileName |-> names[i]]]],
         sizes |->
            [totalOriginalSize |-> OriginalTotal(names),
             totalProcessedSize |-> [low |-> TierTotal(calls, "low"),
                                     medium |-> TierTotal(calls, "medium"),
                                     original |-> TierTotal(calls, "original")],
             files |-> [i \in 1..k |->
                          [fileName |-> names[i],
                           qualities |-> [low |-> calls[3 * (i - 1) + 1].size,
                                          medium |-> calls[3 * (i - 1) + 2].size,
                                          original |-> calls[3 * (i - 1) + 3].size]]]]]

----------------------------------------------------------------------------
(* The target qualities of processImage (unnamed/part_000:13-82): one file *)
(* is taken through the three calls the handler makes for it.              *)

BytesPerKB == 1024
LengthStepKB == 10
MaxLengthSteps == 64

\* fileBuffer.length: an empty file, one byte, and every LengthStepKB
\* kilobytes up to where the low tier's target has settled at its floor.
FileLengths == {1} \cup {i * LengthStepKB * BytesPerKB : i \in 0..MaxLengthSteps}

MathMax(a, b) ==
    IF a.inf \/ b.inf THEN Infinity
    ELSE IF a.n >= b.n THEN a ELSE b

MathMin(a, b) ==
    IF a.inf THEN b
    ELSE IF b.inf THEN a
    ELSE IF a.n <= b.n THEN a ELSE b

\* Math.floor(c / originalSizeKB * 100) with originalSizeKB =
\* fileBuffer.length / 1024: c * 100 * 1024 / length rounded down, and
\* Infinity for an empty buffer (c / 0).
Floored(c, length) ==
    IF length = 0 THEN Infinity
    ELSE Num((c * 100 * BytesPerKB) \div length)

\* unnamed/part_000:20
LowTargetQuality(length) ==
    MathMax(Num(10), MathMin(Num(30), Floored(50, length)))

\* A variant with the two bounds of the medium tier the other way round.
MediumTargetQualityClamped(length) ==
    MathMax(Num(10), MathMin(Num(30), Floored(60, length)))

\* unnamed/part_000:56
MediumTargetQuality(length) ==
    MathMin(Num(10), MathMax(Num(30), Floored(60, length)))

\* unnamed/part_000:127-128 and 19-20: processImage(fileBuffer, 'low')
ProcessLow ==
    /\ quality = "none"
    /\ \E length \in FileLengths :
          /\ fileBuffer' = length
          /\ targetQuality' = [targetQuality EXCEPT !.low = LowTargetQuality(length)]
    /\ quality' = "low"
    /\ UNCHANGED <<harnessVars, samplerVars, uploadVars, payloadVars>>

\* unnamed/part_000:135-136 and 55-56: processImage(fileBuffer, 'medium')
ProcessMedium ==
    /\ quality = "low"
    /\ targetQuality' = [targetQuality EXCEPT !.medium = MediumTargetQuality(fileBuffer)]
    /\ quality' = "medium"
    /\ UNCHANGED <<fileBuffer, harnessVars, samplerVars, uploadVars, payloadVars>>

\* unnamed/part_000:143-144 and 64-66: processImage(fileBuffer,
\* 'original') computes no target quality.
ProcessOriginal ==
    /\ quality = "medium"
    /\ quality' = "original"
    /\ UNCHANGED <<fileBuffer, targetQuality, harnessVars, samplerVars,
                   uploadVars, payloadVars>>

InitQuality ==
    HarnessIdle /\ ResourceMonitorNew /\ UploadIdle /\ PayloadIdle /\ QualityIdle

NextQuality ==
    \/ ProcessLow
    \/ ProcessMedium
    \/ ProcessOriginal

SpecQuality == InitQuality /\ [][NextQuality]_vars

\* C27: for every file length, the low tier's target quality lies in
\* 10..30, the medium tier's target quality is 10, and so the medium
\* target never exceeds the low target of the same file.
C27_MediumTargetIsTen ==
    /\ quality # "none" =>
          /\ ~targetQuality.low.inf
          /\ targetQuality.low.n \in 10..30
    /\ quality \in {"medium", "original"} =>
          /\ targetQuality.medium = Num(10)
          /\ targetQuality.medium.n <= targetQuality.low.n

\* A file for which the formula of the low tier is strictly between its
\* bounds, after its medium call.
C27_Witness ==
    /\ quality = "medium"
    /\ fileBuffer > 0
    /\ targetQuality.low.n \in 11..29
    /\ targetQuality.medium.n = 10

====
